---- MODULE Spec2Model ----
(***************************************************************************)
(* EchoJournal: the audio -> transcription -> analysis pipeline of the     *)
(* three entry points of the repository:                                   *)
(*   app.py            Flask handler handle_file_upload (POST /process,    *)
(*                     POST /upload)                                       *)
(*   app_streamlit.py  the Streamlit upload flow                           *)
(*   app_demo.py       the command line demo                               *)
(* Requests run concurrently (one worker per request) over one working     *)
(* directory.  A handler is split into steps at its blocking calls: the    *)
(* store of the upload, the transcription call, the analysis call.         *)
(*                                                                         *)
(* Strings are sequences of tokens ("a.wav" is <<"a", ".", "wav">>), so    *)
(* that os.path.join and str.split are computed and not assumed.           *)
(***************************************************************************)
EXTENDS Naturals, Sequences, FiniteSets, TLC

\* Number of requests (Flask requests, Streamlit sessions, demo runs).
NumReqs == 2

Reqs == 1..NumReqs

----------------------------------------------------------------------------
(* Values                                                                  *)

\* Filenames a client can put on the 'file' part: the empty name and two
\* different names with the same extension.
FileNames == { <<>>, <<"a", ".", "wav">>, <<"b", ".", "wav">> }

\* st.file_uploader(type=[...]): the extensions the widget accepts.
UploaderTypes == { <<"mp3">>, <<"m4a">>, <<"wav">>, <<"mp4">>, <<"mov">>, <<"webm">> }

\* The bytes request r uploads: distinct requests upload distinct audio.
AudioOf(r) == <<"audio", ToString(r)>>

\* The audio file the demo expects in the working directory.
JournalAudio == <<"audio", "journal">>

\* A path that holds no file.
Absent == <<"absent">>

\* Exceptions: a type and a message; NoneExc is "no exception".
NoneExc == [type |-> "None", msg |-> <<>>]

Exc(t, m) == [type |-> t, msg |-> m]

\* A handler that answers every failure with one fixed text.
str_generic(e) == <<"Internal Server Error">>

\* str(e)
str(e) == e.msg

\* datetime.date.today().strftime("%Y-%m-%d")
today == <<"2025", "-", "01", "-", "01">>

----------------------------------------------------------------------------
(* Paths                                                                   *)

\* os.path.join(dir, name): an absolute second component replaces the first.
path_join(dir, name) ==
    IF name # <<>> /\ name[1] = "/" THEN name ELSE dir \o <<"/">> \o name

\* name.split(".")[-1]: what follows the last dot, the whole name without one.
split_last(name) ==
    LET dots == { i \in 1..Len(name) : name[i] = "." }
        last == IF dots = {} THEN 0
                ELSE CHOOSE i \in dots : \A j \in dots : j <= i
    IN SubSeq(name, last + 1, Len(name))

\* file_path of the Flask handler.
upload_path(name) == path_join(<<"uploads">>, name)

\* temp_file of the Streamlit flow.
temp_file(name) == <<"temp_audio", ".">> \o split_last(name)

\* audio_file of the demo.
audio_file == <<"journal", ".", "m4a">>

\* "uploads/" names the directory itself: open(..., "wb") on it raises.
IsDirectory(p) == p = <<"uploads", "/">>

\* The names the Streamlit uploader lets through.
UploaderNames == { n \in FileNames : split_last(n) \in UploaderTypes }

AllPaths ==
    { upload_path(n) : n \in FileNames }
        \cup { temp_file(n) : n \in UploaderNames }
        \cup { audio_file }

----------------------------------------------------------------------------
(* State                                                                   *)

VARIABLES
    req,         \* per request: its input, locals, position and outcome
    fs,          \* the working directory: path -> bytes, or Absent
    uploadsDir   \* whether the directory "uploads" exists

vars == <<req, fs, uploadsDir>>

\* No response returned.
NoResp == [status |-> 0, body |-> {}]

\* A request not yet received.
\*   variant        which entry point serves it
\*   hasFile        whether the 'file' part / uploaded_file is present
\*   filename       file.filename / uploaded_file.name
\*   pc             "idle", "stored", "transcribed", "done"
\*   file_path      the path the handler stored the audio at
\*   transcription  the local variable transcription
\*   resp           the (body, status) the Flask handler returned
\*   raised         the exception that left the handler or script
\*   out            what the Streamlit page / the demo's stdout shows
\*   hist           the steps taken, in order: "makedirs", "stored", "stt",
\*                  "llm", "removed", "responded", "raised"
\*   stt            the calls of transcribe_audio, in order
\*   llm            the calls of analyze_journal, in order
InitReq ==
    [ variant |-> "-", hasFile |-> FALSE, filename |-> <<>>, pc |-> "idle",
      file_path |-> <<>>, transcription |-> <<>>, resp |-> NoResp,
      raised |-> NoneExc, out |-> {}, hist |-> <<>>, stt |-> <<>>, llm |-> <<>> ]

Init ==
    /\ req = [r \in Reqs |-> InitReq]
    /\ fs = [p \in AllPaths |-> IF p = audio_file THEN JournalAudio ELSE Absent]
    /\ uploadsDir = FALSE

----------------------------------------------------------------------------
(* The two external clients                                                *)

\* What the transcription service makes of the bytes it is sent.
Speech(bytes) == <<"words", bytes[2]>>

\* transcribe_audio(file_path): open(file_path, "rb") raises when the file
\* is gone; the service returns the text, an empty text (silent audio), or
\* raises.  called: whether the client was invoked; read: the bytes sent.
transcribe_audio(path) ==
    IF fs[path] = Absent
    THEN { [called |-> FALSE, read |-> Absent, ok |-> FALSE, text |-> <<>>,
            err |-> Exc("FileNotFoundError", <<"No such file">> \o path)] }
    ELSE { [called |-> TRUE, read |-> fs[path], ok |-> TRUE, text |-> t,
            err |-> NoneExc] : t \in { Speech(fs[path]), <<>> } }
         \cup
         { [called |-> TRUE, read |-> fs[path], ok |-> FALSE, text |-> <<>>,
            err |-> Exc("APIError", <<"transcription", "failed">>)] }

\* The template filled with {transcription} and {today}.
format_prompt(transcription, date) ==
    <<"preamble", "Journal Date:">> \o date
        \o <<"sections", "User Journal Entry:">> \o transcription

\* analyze_journal(transcription): the chain is invoked once with the two
\* template variables; the model returns a text (possibly empty) or raises.
analyze_journal(transcription) ==
    LET input  == [transcription |-> transcription, today |-> today]
        prompt == format_prompt(input.transcription, input.today)
    IN { [input |-> input, prompt |-> prompt, ok |-> TRUE, content |-> c,
          err |-> NoneExc] : c \in { <<"guidance">>, <<>> } }
       \cup
       { [input |-> input, prompt |-> prompt, ok |-> FALSE, content |-> <<>>,
          err |-> Exc("APIError", <<"analysis", "failed">>)] }

----------------------------------------------------------------------------
(* Flask: app.py                                                           *)

\* jsonify(body), status
Response(status, body) == [status |-> status, body |-> body]

\* A handler that never checks for the file part.
FileMissing_never(hasF) == FALSE

\* "file" not in request.files
FileMissing(hasF) == ~hasF

\* {"error": msg}
ErrorBody(msg) == { <<"error", msg>> }

\* A success body that puts the transcription under both keys.
SuccessBody_echo(transcription, analysis) ==
    { <<"transcription", transcription>>, <<"analysis", transcription>> }

\* {"transcription": transcription, "analysis": analysis}
SuccessBody(transcription, analysis) ==
    { <<"transcription", transcription>>, <<"analysis", analysis>> }

\* The handler returns a response.
Return(q, response) ==
    [q EXCEPT !.pc = "done", !.resp = response,
              !.hist = Append(@, "responded")]

\* An exception leaves the handler (or the script).
Raise(q, e) ==
    [q EXCEPT !.pc = "done", !.raised = e, !.hist = Append(@, "raised")]

\* An except clause that returns what the request has obtained so far.
Except_partial(q, e) ==
    Return(q, Response(500, ErrorBody(str(e))
                                \cup { <<"transcription", q.transcription>> }))

\* An except clause that starts the pipeline over.
Except_retry(q, e) == [q EXCEPT !.pc = "stored"]

\* except Exception as e: return jsonify({"error": str(e)}), 500
Except(q, e) == Return(q, Response(500, ErrorBody(str(e))))

\* Lines 83-89: the check for the file part, then makedirs and save, both
\* outside the try.  io is the outcome of the file system: "ok", or the
\* call that fails with an OSError.
handle_file_upload(r, hasF, name, io) ==
    /\ req[r].pc = "idle"
    /\ LET q == [req[r] EXCEPT !.variant = "flask", !.hasFile = hasF,
                               !.filename = name]
           m == [q EXCEPT !.hist = Append(@, "makedirs")]
           p == upload_path(name)
       IN IF FileMissing(hasF) THEN
             /\ req' = [req EXCEPT ![r] =
                    Return(q, Response(400, ErrorBody(<<"No audio file uploaded">>)))]
             /\ UNCHANGED <<fs, uploadsDir>>
          ELSE IF ~hasF THEN      \* request.files["file"] on a missing key
             /\ req' = [req EXCEPT ![r] = Raise(q, Exc("KeyError", <<"file">>))]
             /\ UNCHANGED <<fs, uploadsDir>>
          ELSE IF io = "makedirs" THEN
             /\ req' = [req EXCEPT ![r] =
                    Raise(q, Exc("OSError", <<"makedirs", "failed">>))]
             /\ UNCHANGED <<fs, uploadsDir>>
          ELSE IF IsDirectory(p) THEN
             /\ req' = [req EXCEPT ![r] =
                    Raise(m, Exc("IsADirectoryError", <<"Is a directory">> \o p))]
             /\ uploadsDir' = TRUE
             /\ UNCHANGED fs
          ELSE IF io = "save" THEN
             /\ req' = [req EXCEPT ![r] =
                    Raise(m, Exc("OSError", <<"save", "failed">>))]
             /\ uploadsDir' = TRUE
             /\ UNCHANGED fs
          ELSE
             /\ req' = [req EXCEPT ![r] =
                    [m EXCEPT !.pc = "stored", !.file_path = p,
                              !.hist = Append(@, "stored")]]
             /\ fs' = [fs EXCEPT ![p] = AudioOf(r)]
             /\ uploadsDir' = TRUE

\* What a request can carry: no file part, or a file part with a filename.
Uploads == { <<FALSE, <<>>>> } \cup { <<TRUE, n>> : n \in FileNames }

IoOutcomes == { "ok", "makedirs", "save" }

\* @app.route("/process")
process_audio(r) ==
    \E u \in Uploads, io \in IoOutcomes : handle_file_upload(r, u[1], u[2], io)

\* @app.route("/upload")
upload_audio(r) ==
    \E u \in Uploads, io \in IoOutcomes : handle_file_upload(r, u[1], u[2], io)

\* The call of transcribe_audio recorded in the request.
Transcribed(q, o) ==
    [q EXCEPT !.stt = Append(@, o), !.hist = Append(@, "stt")]

\* The call of analyze_journal recorded in the request.
Analyzed(q, o) ==
    [q EXCEPT !.llm = Append(@, o), !.hist = Append(@, "llm")]

\* Line 92, inside the try.
FlaskTranscribe(r) ==
    /\ req[r].variant = "flask"
    /\ req[r].pc = "stored"
    /\ \E o \in transcribe_audio(req[r].file_path) :
         LET q == Transcribed(req[r], o)
         IN req' = [req EXCEPT ![r] =
                IF o.ok
                THEN [q EXCEPT !.pc = "transcribed", !.transcription = o.text]
                ELSE Except(q, o.err)]
    /\ UNCHANGED <<fs, uploadsDir>>

\* Lines 93-100: the analysis and the response.
FlaskAnalyze(r) ==
    /\ req[r].variant = "flask"
    /\ req[r].pc = "transcribed"
    /\ \E o \in analyze_journal(req[r].transcription) :
         LET q == Analyzed(req[r], o)
         IN req' = [req EXCEPT ![r] =
                IF o.ok
                THEN Return(q, Response(200,
                         SuccessBody(q.transcription, o.content)))
                ELSE Except(q, o.err)]
    /\ UNCHANGED <<fs, uploadsDir>>

----------------------------------------------------------------------------
(* Streamlit: app_streamlit.py                                             *)

\* Lines 88-92: nothing happens without an upload; otherwise the bytes are
\* written to temp_audio.<extension>.
StUpload(r) ==
    /\ req[r].pc = "idle"
    /\ \E hasF \in BOOLEAN, name \in UploaderNames, io \in { "ok", "open" } :
         LET q == [req[r] EXCEPT !.variant = "streamlit", !.hasFile = hasF,
                                 !.filename = IF hasF THEN name ELSE <<>>]
             p == temp_file(name)
         IN IF ~hasF THEN
               /\ req' = [req EXCEPT ![r] = [q EXCEPT !.pc = "done"]]
               /\ UNCHANGED fs
            ELSE IF io = "open" THEN
               /\ req' = [req EXCEPT ![r] =
                      Raise(q, Exc("OSError", <<"open", "failed">>))]
               /\ UNCHANGED fs
            ELSE
               /\ req' = [req EXCEPT ![r] =
                      [q EXCEPT !.pc = "stored", !.file_path = p,
                                !.hist = Append(@, "stored")]]
               /\ fs' = [fs EXCEPT ![p] = AudioOf(r)]
    /\ UNCHANGED uploadsDir

\* Lines 94-97: the transcription is shown as soon as it is there.
StTranscribe(r) ==
    /\ req[r].variant = "streamlit"
    /\ req[r].pc = "stored"
    /\ \E o \in transcribe_audio(req[r].file_path) :
         LET q == Transcribed(req[r], o)
         IN req' = [req EXCEPT ![r] =
                IF o.ok
                THEN [q EXCEPT !.pc = "transcribed", !.transcription = o.text,
                               !.out = @ \cup { <<"transcription", o.text>> }]
                ELSE Raise(q, o.err)]
    /\ UNCHANGED <<fs, uploadsDir>>

\* Lines 99-105: the analysis is shown, then the temporary file is removed;
\* os.remove raises when another session has removed the file.
StAnalyze(r) ==
    /\ req[r].variant = "streamlit"
    /\ req[r].pc = "transcribed"
    /\ \E o \in analyze_journal(req[r].transcription) :
         LET q == Analyzed(req[r], o)
             s == [q EXCEPT !.out = @ \cup { <<"analysis", o.content>> },
                            !.hist = Append(@, "responded")]
             p == req[r].file_path
         IN IF ~o.ok THEN
               /\ req' = [req EXCEPT ![r] = Raise(q, o.err)]
               /\ UNCHANGED fs
            ELSE IF fs[p] = Absent THEN
               /\ req' = [req EXCEPT ![r] =
                      Raise(s, Exc("FileNotFoundError", <<"No such file">> \o p))]
               /\ UNCHANGED fs
            ELSE
               /\ req' = [req EXCEPT ![r] =
                      [s EXCEPT !.pc = "done", !.hist = Append(@, "removed")]]
               /\ fs' = [fs EXCEPT ![p] = Absent]
    /\ UNCHANGED uploadsDir

----------------------------------------------------------------------------
(* Demo: app_demo.py                                                       *)

\* Lines 86-90: the fixed audio file is transcribed and printed.
DemoTranscribe(r) ==
    /\ req[r].pc = "idle"
    /\ \E o \in transcribe_audio(audio_file) :
         LET q == Transcribed([req[r] EXCEPT !.variant = "demo",
                                             !.file_path = audio_file], o)
         IN req' = [req EXCEPT ![r] =
                IF o.ok
                THEN [q EXCEPT !.pc = "transcribed", !.transcription = o.text,
                               !.out = @ \cup { <<"transcription", o.text>> }]
                ELSE Raise(q, o.err)]
    /\ UNCHANGED <<fs, uploadsDir>>

\* Lines 92-94: the analysis is printed.
DemoAnalyze(r) ==
    /\ req[r].variant = "demo"
    /\ req[r].pc = "transcribed"
    /\ \E o \in analyze_journal(req[r].transcription) :
         LET q == Analyzed(req[r], o)
         IN req' = [req EXCEPT ![r] =
                IF o.ok
                THEN [q EXCEPT !.pc = "done",
                               !.out = @ \cup { <<"analysis", o.content>> },
                               !.hist = Append(@, "responded")]
                ELSE Raise(q, o.err)]
    /\ UNCHANGED <<fs, uploadsDir>>

----------------------------------------------------------------------------
(* Specification                                                           *)

Next ==
    \E r \in Reqs :
        \/ process_audio(r)
        \/ upload_audio(r)
        \/ FlaskTranscribe(r)
        \/ FlaskAnalyze(r)
        \/ StUpload(r)
        \/ StTranscribe(r)
        \/ StAnalyze(r)
        \/ DemoTranscribe(r)
        \/ DemoAnalyze(r)

Spec == Init /\ [][Next]_vars

----------------------------------------------------------------------------
(* Properties                                                              *)

IsFlask(r) == req[r].variant = "flask"

IsUpload(r) == req[r].variant \in { "flask", "streamlit" }

Done(r) == req[r].pc = "done"

\* The keys of a JSON object.
Keys(body) == { p[1] : p \in body }

\* transcribe_audio raised in request r.
SttFailed(r) == \E i \in 1..Len(req[r].stt) : ~req[r].stt[i].ok

\* analyze_journal raised in request r.
LlmFailed(r) == \E i \in 1..Len(req[r].llm) : ~req[r].llm[i].ok

\* Event e occurs in history h.
Occurs(e, h) == \E i \in 1..Len(h) : h[i] = e

\* The request holds a file at its path and has not finished.
InFlight(r) == IsUpload(r) /\ req[r].pc \in { "stored", "transcribed" }

\* The store, transcription and analysis steps of a history, in order.
Steps(h) == SelectSeq(h, LAMBDA e : e \in { "stored", "stt", "llm" })

IsPrefix(s, t) == Len(s) <= Len(t) /\ s = SubSeq(t, 1, Len(s))

\* C1: a POST /process or POST /upload request without a 'file' part is
\* answered 400 with a JSON object holding only 'error'; transcribe_audio
\* and analyze_journal are not called for it, and it creates neither the
\* uploads directory nor a file.
C1_NoFileIs400 ==
    \A r \in Reqs :
        IsFlask(r) /\ ~req[r].hasFile =>
            /\ Done(r)
            /\ req[r].raised = NoneExc
            /\ req[r].resp.status = 400
            /\ Keys(req[r].resp.body) = { "error" }
            /\ req[r].stt = <<>>
            /\ req[r].llm = <<>>
            /\ req[r].hist = <<"responded">>
            /\ req[r].file_path = <<>>

\* A Flask request without a file part has been answered while another
\* request holds a stored file.
C1_Witness ==
    \E r, o \in Reqs :
        /\ IsFlask(r) /\ ~req[r].hasFile /\ req[r].resp.status = 400
        /\ InFlight(o)

\* C2: when the analysis client raises, the response is a 500 and the audio
\* file the request stored no longer exists once the request has ended.
C2_AnalysisFailureRemovesFile ==
    \A r \in Reqs :
        IsUpload(r) /\ LlmFailed(r) /\ Done(r) =>
            /\ IsFlask(r) => req[r].resp.status = 500
            /\ fs[req[r].file_path] = Absent

\* C3: after a request has returned 200 with transcription and analysis,
\* the file it stored is absent, and it was removed before the response.
C3_SuccessRemovesFile ==
    \A r \in Reqs :
        IsFlask(r) /\ req[r].resp.status = 200 =>
            /\ fs[req[r].file_path] = Absent
            /\ Occurs("removed", req[r].hist)

\* C4: two requests in flight at the same time hold different paths, and a
\* transcription call never reads bytes another request wrote.
C4_DistinctPaths ==
    /\ \A r1, r2 \in Reqs :
           r1 # r2 /\ InFlight(r1) /\ InFlight(r2) =>
               req[r1].file_path # req[r2].file_path
    /\ \A r \in Reqs :
           IsUpload(r) =>
               \A i \in 1..Len(req[r].stt) :
                   req[r].stt[i].called => req[r].stt[i].read = AudioOf(r)

\* C5: when transcribe_audio raises in a Flask request, analyze_journal is
\* not called for that request and the response is a 500 whose 'error' is
\* the text of the exception transcribe_audio raised.
C5_TranscriptionFailure ==
    \A r \in Reqs :
        IsFlask(r) /\ SttFailed(r) =>
            /\ req[r].llm = <<>>
            /\ Done(r)
            /\ req[r].raised = NoneExc
            /\ Len(req[r].stt) = 1
            /\ req[r].resp.status = 500
            /\ req[r].resp.body = { <<"error", req[r].stt[1].err.msg>> }

\* The transcription client was called and raised in a Flask request.
C5_Witness ==
    \E r \in Reqs :
        /\ IsFlask(r) /\ SttFailed(r) /\ req[r].stt[1].called
        /\ req[r].resp.status = 500

\* C6: a Flask request whose file part has an empty filename is answered
\* 400 with an 'error' object and reaches neither the store nor a client.
C6_EmptyFilenameIs400 ==
    \A r \in Reqs :
        /\ IsFlask(r) /\ req[r].hasFile /\ req[r].filename = <<>>
        /\ Done(r) /\ Occurs("makedirs", req[r].hist)
        => /\ req[r].resp.status = 400
           /\ Keys(req[r].resp.body) = { "error" }

C8_StoreFailureIs500 ==
    \A r \in Reqs :
        /\ IsFlask(r) /\ req[r].hasFile /\ req[r].filename # <<>>
        /\ Done(r) /\ ~Occurs("stored", req[r].hist)
        => /\ req[r].raised = NoneExc
           /\ req[r].resp.status = 500
           /\ Keys(req[r].resp.body) = { "error" }

\* Both clients returned in a finished Flask request.
BothReturned(r) ==
    /\ IsFlask(r) /\ Done(r)
    /\ Len(req[r].stt) = 1 /\ req[r].stt[1].ok
    /\ Len(req[r].llm) = 1 /\ req[r].llm[1].ok

\* C9 as claimed: when neither client raises, the response is a 200 with
\* exactly the keys 'transcription' and 'analysis', both non-empty, also
\* when the transcription service returns an empty text.  Stated of the
\* requests whose analysis came back non-empty, so that only the
\* transcription can break it.
C9_BothNonEmpty ==
    \A r \in Reqs :
        BothReturned(r) /\ req[r].llm[1].content # <<>> =>
            /\ req[r].resp.status = 200
            /\ Keys(req[r].resp.body) = { "transcription", "analysis" }
            /\ \A p \in req[r].resp.body : p[2] # <<>>

\* C9 as amended: when the upload was stored and neither client raises, the
\* response is a 200 whose object has exactly the keys 'transcription' and
\* 'analysis', holding the texts the two clients returned, empty or not.
C9_BothAsReturned ==
    \A r \in Reqs :
        /\ IsFlask(r) /\ Done(r) /\ Occurs("stored", req[r].hist)
        /\ ~SttFailed(r) /\ ~LlmFailed(r)
        => /\ BothReturned(r)
           /\ req[r].resp.status = 200
           /\ req[r].raised = NoneExc
           /\ req[r].resp.body =
                  { <<"transcription", req[r].stt[1].text>>,
                    <<"analysis", req[r].llm[1].content>> }

\* A 200 response whose transcription is empty and whose analysis is not.
C9_Witness ==
    \E r \in Reqs :
        /\ BothReturned(r)
        /\ req[r].stt[1].text = <<>>
        /\ req[r].llm[1].content # <<>>
        /\ req[r].resp.status = 200

\* C10: within a request the steps run forward once: the store (where the
\* variant has one), then at most one transcription call, then at most one
\* analysis call, made only after the transcription returned and with its
\* text; a failed call is the last call of the request.
C10_ForwardOnce ==
    \A r \in Reqs :
        /\ Len(req[r].stt) <= 1
        /\ Len(req[r].llm) <= 1
        /\ IsUpload(r) => IsPrefix(Steps(req[r].hist), <<"stored", "stt", "llm">>)
        /\ ~IsUpload(r) => IsPrefix(Steps(req[r].hist), <<"stt", "llm">>)
        /\ req[r].llm # <<>> =>
               /\ req[r].stt # <<>>
               /\ req[r].stt[1].ok
               /\ req[r].llm[1].input.transcription = req[r].stt[1].text
               /\ LET pr == req[r].llm[1].prompt
                      t  == req[r].stt[1].text
                  IN SubSeq(pr, Len(pr) - Len(t) + 1, Len(pr)) = t
        /\ SttFailed(r) \/ LlmFailed(r) => Done(r)

\* Every variant has made its analysis call with a non-empty transcription,
\* and some request has ended on a failed call.
C10_Witness ==
    /\ \E r \in Reqs :
           /\ req[r].llm # <<>>
           /\ req[r].llm[1].input.transcription # <<>>
           /\ req[r].variant = "demo"
    /\ \E r \in Reqs : IsFlask(r) /\ Done(r) /\ (SttFailed(r) \/ LlmFailed(r))

====
